---- MODULE Spec2Model ----
(***************************************************************************)
(* PrivyPass backend: the request handlers of src/routes (create account,  *)
(* deposit, apply pending, transfer, withdraw) as state machines over the  *)
(* ledger round-trips they await.  One action is one await of a handler    *)
(* together with the local code that runs around it.  The ledger and the   *)
(* proof library are the environment: whether a request is delivered and   *)
(* whether a proof can be generated are inputs drawn with \E; what the     *)
(* ledger program does with a delivered transaction follows the balance    *)
(* state machine of the token program.                                     *)
(*                                                                         *)
(* Spec       two request slots, each serving one request, against a       *)
(*            ledger whose accounts are absent, or already funded with     *)
(*            their credit counters at zero or at their maximum;           *)
(* LiveSpec   Spec with awaited ledger requests eventually returning;      *)
(* ProverSpec generate_eligibility_proof alone, over all its arguments;    *)
(* EndpointSpec the generate-proof endpoint over accounts of any balance.  *)
(***************************************************************************)
EXTENDS Integers, Sequences, FiniteSets, TLC

\* ------------------------------------------------------------ bounds
\* Largest amount a request carries; the proof system's ceiling lies below it.
MaxAmount == 2
\* Largest balance and threshold handed to the eligibility prover.
MaxBalance == 11

\* ------------------------------------------------------------ constants
BAD_REQUEST == 400
NOT_FOUND == 404
INTERNAL_SERVER_ERROR == 500
OK == 200
\* account.rs:60
maximum_pending_balance_credit_counter == 65536
\* account.rs:177: let available_balance = 100u64; // Placeholder
placeholder_available_balance == 100

\* ------------------------------------------------------------ domains
Runs == {1, 2}
Wallets == {"w1", "w2"}
Mints == {"mint"}
Kinds == {"create_account", "deposit", "apply_pending", "transfer", "withdraw"}
Amounts == 1..MaxAmount
\* Amounts above this make proof generation fail (the range proof's width).
ProvableCeiling == MaxAmount - 1

\* get_associated_token_address_with_program_id: an address fixed by
\* (wallet, mint); distinct pairs give distinct addresses.
get_associated_token_address(wallet, mint) == <<"ata", wallet, mint>>
Accounts == {get_associated_token_address(w, m) : w \in Wallets, m \in Mints}

\* The requests enumerated name a wallet and a token account of that wallet.
Holds(wallet, token_account) ==
    \E m \in Mints : token_account = get_associated_token_address(wallet, m)

NoAccount == <<"none">>
NoKeys == <<"nokey">>
NoResp == [status |-> 0, hasBody |-> FALSE, success |-> FALSE]
\* The balances of a token account: public, confidential pending and
\* available, and the pending-credit counter.
NoBalances == [public |-> 0, pending |-> 0, available |-> 0, credits |-> 0]
NoCiphertext == <<"noct">>

VARIABLES
    run,       \* run[r]: the handler invocation in slot r (locals and position)
    ledger,    \* ledger[a]: the token account a as the ledger holds it
    contexts,  \* proof-context accounts that exist on the ledger
    nextKey,   \* keypairs handed out so far to the requests accepted
    attest     \* a call of generate_eligibility_proof: arguments and result

vars == <<run, ledger, contexts, nextKey, attest>>

\* ------------------------------------------------------------ key derivation
\* ElGamalKeypair::new_from_signer(wallet_keypair, token_account bytes): the
\* keypair is fixed by the signer's signature over the account's bytes.
generate_elgamal_keypair(wallet_keypair, token_account) ==
    <<"elgamal", wallet_keypair, token_account>>

\* AeKey::new_from_signer(wallet_keypair, token_account bytes).
generate_aes_key(wallet_keypair, token_account) ==
    <<"aes", wallet_keypair, token_account>>

\* aes_key.encrypt(amount)
AeEncrypt(aes_key, amount) == <<"aect", aes_key, amount>>

\* ------------------------------------------------------------ proofs
\* ContextKinds with the range proof of a transfer left out.
ContextKinds_NoRange(kind) ==
    CASE kind = "transfer" -> <<"equality", "ciphertext_validity">>
      [] kind = "withdraw" -> <<"equality", "range">>
      [] OTHER -> <<>>

\* The sub-proofs a handler stages as proof-context accounts, in the order
\* it creates them.  create_account carries its proof as instruction data.
ContextKinds(kind) ==
    CASE kind = "transfer" -> <<"equality", "ciphertext_validity", "range">>
      [] kind = "withdraw" -> <<"equality", "range">>
      [] OTHER -> <<>>

\* The outcomes proof generation can have for an amount: the library rejects
\* an amount above the provable ceiling and may reject any other input (an
\* undecryptable balance, insufficient funds).
ProofOutcomes(amount) ==
    IF amount > ProvableCeiling THEN {FALSE} ELSE BOOLEAN


\* ------------------------------------------------------------ eligibility
\* Strings are sequences of characters.
Digits == <<"0", "1", "2", "3", "4", "5", "6", "7", "8", "9">>

\* The "{}" of format! for an unsigned integer: its decimal digits, most
\* significant first, no sign, no padding.
RECURSIVE to_string(_)
to_string(n) ==
    IF n < 10 THEN <<Digits[n + 1]>>
    ELSE to_string(n \div 10) \o <<Digits[(n % 10) + 1]>>

ProofEligible == <<"p", "r", "o", "o", "f", ":", "e", "l", "i", "g", "i", "b", "l", "e", ":">>
ProofIneligible == <<"p", "r", "o", "o", "f", ":", "i", "n", "e", "l", "i", "g", "i", "b", "l", "e">>

\* generate_eligibility_proof with the comparison strict.
generate_eligibility_proof_Strict(available_balance, threshold, now) ==
    LET eligible == available_balance > threshold
    IN  [ok |-> TRUE, eligible |-> eligible,
         proof |-> IF eligible
                   THEN ProofEligible \o to_string(available_balance) \o <<":">>
                        \o to_string(threshold) \o <<":">> \o to_string(now)
                   ELSE ProofIneligible]

\* generate_eligibility_proof with the threshold formatted before the
\* balance.
generate_eligibility_proof_Swapped(available_balance, threshold, now) ==
    LET eligible == available_balance >= threshold
    IN  [ok |-> TRUE, eligible |-> eligible,
         proof |-> IF eligible
                   THEN ProofEligible \o to_string(threshold) \o <<":">>
                        \o to_string(available_balance) \o <<":">> \o to_string(now)
                   ELSE ProofIneligible]

\* generate_eligibility_proof(available_balance, threshold) -> Ok((eligible,
\* proof)); now is what chrono::Utc::now().timestamp() returns.
generate_eligibility_proof(available_balance, threshold, now) ==
    LET eligible == available_balance >= threshold
    IN  [ok |-> TRUE, eligible |-> eligible,
         proof |-> IF eligible
                   THEN ProofEligible \o to_string(available_balance) \o <<":">>
                        \o to_string(threshold) \o <<":">> \o to_string(now)
                   ELSE ProofIneligible]

\* Calls of generate_eligibility_proof: the arguments, the clock, and once
\* it has returned the result.
Balances == 0..MaxBalance
Timestamps == {0, 1762128000}
NoAttest ==
    [pc |-> "none", available_balance |-> 0, threshold |-> 0, now |-> 0,
     result |-> [ok |-> FALSE, eligible |-> FALSE, proof |-> <<>>]]
Called(available_balance, threshold, now) ==
    [NoAttest EXCEPT !.pc = "called", !.available_balance = available_balance,
                     !.threshold = threshold, !.now = now]

\* ------------------------------------------------------------ run records
IdleRun ==
    [pc |-> "idle", kind |-> "none", malformed |-> FALSE, wallet |-> "none",
     acct |-> NoAccount, amount |-> 0, payer |-> 0, signer |-> 0,
     elgamal |-> NoKeys, aes |-> NoKeys, ctx |-> <<>>, k |-> 0,
     log |-> <<>>, resp |-> NoResp, failed |-> "none",
     recipient |-> NoAccount, delivered |-> FALSE, order |-> 0,
     before |-> NoBalances, after |-> NoBalances, seen |-> NoCiphertext,
     threshold |-> 0, eligible |-> FALSE, proof |-> <<>>,
     public_inputs |-> <<>>]

\* Err(status): the handler returns a bare status code.  `step` records which
\* `?` returned (history only: the caller sees the status alone).
Respond(rec, status, step) ==
    [rec EXCEPT !.pc = "done",
                !.resp = [status |-> status, hasBody |-> FALSE, success |-> FALSE],
                !.failed = step]

\* Ok(Json(..Response { success: true, signature, error: None }))
RespondOk(rec) ==
    [rec EXCEPT !.pc = "done",
                !.resp = [status |-> OK, hasBody |-> TRUE, success |-> TRUE]]

\* One client.send_and_confirm_transaction(..).await: what was submitted
\* and what the ledger answered.  op is "create", "guarded" or "close"; id is
\* the proof context created or closed; refs are the proof contexts the
\* guarded instruction names; proof is the sub-proof the transaction carries
\* as instruction data ("none" when it carries none).
Submission(op, id, refs, proof, ok) ==
    [op |-> op, id |-> id, refs |-> refs, proof |-> proof, ok |-> ok]

Logged(rec, entry) == [rec EXCEPT !.log = Append(@, entry)]

\* Parsed with the amount read as a signed number and a negative one sent.
Parsed_Signed(kind, wallet, acct, amount, malformed) ==
    IF malformed
    THEN [IdleRun EXCEPT !.kind = kind, !.malformed = TRUE]
    ELSE [IdleRun EXCEPT !.kind = kind, !.wallet = wallet, !.acct = acct,
                         !.amount = 0 - amount]

\* The request as parsed: Pubkey::from_str(..).map_err(|_| BAD_REQUEST)?
\* A request with a malformed identifier leaves the handler before any of
\* its values is used.
Parsed(kind, wallet, acct, amount, malformed) ==
    IF malformed
    THEN [IdleRun EXCEPT !.kind = kind, !.malformed = TRUE]
    ELSE [IdleRun EXCEPT !.kind = kind, !.wallet = wallet, !.acct = acct,
                         !.amount = amount]

\* ------------------------------------------------------------ ledger
AbsentAccount ==
    [exists |-> FALSE, owner |-> "none", mint |-> "none", elgamal |-> NoKeys,
     decryptable |-> NoKeys, max_credits |-> 0, bal |-> NoBalances,
     nonce |-> 0]

\* ConfiguredAccount with the counter maximum left at zero.
ConfiguredAccount_NoMaximum(rec) ==
    [exists |-> TRUE, owner |-> rec.wallet, mint |-> rec.acct[3],
     elgamal |-> rec.elgamal, decryptable |-> AeEncrypt(rec.aes, 0),
     max_credits |-> 0, bal |-> NoBalances, nonce |-> 0]

\* ConfiguredAccount with the new account credited one pending unit.
ConfiguredAccount_Credited(rec) ==
    [exists |-> TRUE, owner |-> rec.wallet, mint |-> rec.acct[3],
     elgamal |-> rec.elgamal, decryptable |-> AeEncrypt(rec.aes, 0),
     max_credits |-> maximum_pending_balance_credit_counter,
     bal |-> [NoBalances EXCEPT !.pending = 1], nonce |-> 0]

\* What a confirmed create-account transaction leaves on the ledger: the
\* associated token account of the wallet, configured with the ElGamal
\* public key, the decryptable zero balance and the counter maximum.
ConfiguredAccount(rec) ==
    [exists |-> TRUE, owner |-> rec.wallet, mint |-> rec.acct[3],
     elgamal |-> rec.elgamal, decryptable |-> AeEncrypt(rec.aes, 0),
     max_credits |-> maximum_pending_balance_credit_counter,
     bal |-> NoBalances, nonce |-> 0]

\* A token account that was configured and funded before the server started:
\* its holder configured it with keys derived from the holder's own keypair
\* (0: the server's keypairs are numbered from 1);
\* it holds one unit less than MaxAmount in public and MaxAmount available.
FundedAccount(wallet, mint) ==
    LET a == get_associated_token_address(wallet, mint)
    IN  [exists |-> TRUE, owner |-> wallet, mint |-> mint,
         elgamal |-> generate_elgamal_keypair(0, a),
         decryptable |-> AeEncrypt(generate_aes_key(0, a), MaxAmount),
         max_credits |-> maximum_pending_balance_credit_counter,
         bal |-> [public |-> MaxAmount - 1, pending |-> 0,
                  available |-> MaxAmount, credits |-> 0],
         nonce |-> 0]

\* A funded token account that has received as many confidential credits as
\* its counter allows and has applied none of them: one unit is pending.
SaturatedAccount(wallet, mint) ==
    [FundedAccount(wallet, mint) EXCEPT
        !.bal = [@ EXCEPT !.pending = 1,
                          !.credits = maximum_pending_balance_credit_counter]]

\* The available balance of an account as the ledger stores it: a ciphertext,
\* which is new whenever the balance is changed, also when a later change
\* brings the amount back to an earlier one.
AvailableCiphertext(acc) == <<"elgamalct", acc.bal.available, acc.nonce>>

\* Instruction with the amount of a withdraw doubled.
Instruction_DoubleWithdraw(rec) ==
    [op |-> rec.kind, account |-> rec.acct,
     mint |-> IF rec.kind = "deposit" THEN rec.acct ELSE <<"unnamed">>,
     amount |-> IF rec.kind = "withdraw" THEN 2 * rec.amount ELSE rec.amount,
     recipient |-> rec.recipient, bound |-> rec.seen]

\* Instruction with the sender's own token account named as the recipient
\* of a transfer.
Instruction_SelfRecipient(rec) ==
    [op |-> rec.kind, account |-> rec.acct,
     mint |-> IF rec.kind = "deposit" THEN rec.acct ELSE <<"unnamed">>,
     amount |-> rec.amount,
     recipient |-> IF rec.kind = "transfer" THEN rec.acct ELSE rec.recipient,
     bound |-> rec.seen]

\* The instruction of the guarded transaction as the handler builds it: the
\* operation, the token account, the account passed as the mint (deposit
\* passes the token account itself; the other builders are not given a
\* mint), the amount, the recipient of a transfer, and the available-balance
\* ciphertext the proofs in the named contexts were generated from
\* (TransferAccountInfo::new / WithdrawAccountInfo::new of the fetched
\* extension).
Instruction(rec) ==
    [op |-> rec.kind, account |-> rec.acct,
     mint |-> IF rec.kind = "deposit" THEN rec.acct ELSE <<"unnamed">>,
     amount |-> rec.amount, recipient |-> rec.recipient,
     bound |-> rec.seen]

\* The ledger program's preconditions: create_associated_token_account
\* cannot succeed twice; the other operations need their accounts; a deposit
\* names the account's mint and moves at most the public balance, with room
\* left under the credit counter's maximum; a transfer or a withdraw moves at
\* most the available balance, and its proofs verify only against the
\* available-balance ciphertext the account holds when it is executed.
Accepts(led, ix) ==
    LET acc == led[ix.account]
    IN  CASE ix.op = "create_account" -> ~acc.exists
          [] ix.op = "deposit" ->
                /\ acc.exists /\ ix.mint = acc.mint
                /\ ix.amount <= acc.bal.public
                /\ acc.bal.credits < acc.max_credits
          [] ix.op = "apply_pending" -> acc.exists
          [] ix.op = "withdraw" ->
                /\ acc.exists /\ ix.amount <= acc.bal.available
                /\ ix.bound = AvailableCiphertext(acc)
          [] ix.op = "transfer" ->
                /\ acc.exists /\ ix.amount <= acc.bal.available
                /\ ix.bound = AvailableCiphertext(acc)
                /\ led[ix.recipient].exists
                /\ led[ix.recipient].bal.credits < led[ix.recipient].max_credits
          [] OTHER -> FALSE

\* The balances of account a after the ledger program executed ix.
Executed(led, ix, a) ==
    LET b == led[a].bal
        sender == a = ix.account
    IN  CASE ix.op = "deposit" /\ sender ->
                [b EXCEPT !.public = @ - ix.amount, !.pending = @ + ix.amount,
                          !.credits = @ + 1]
          [] ix.op = "apply_pending" /\ sender /\ b.credits >= 1 ->
                [b EXCEPT !.available = @ + b.pending, !.pending = 0,
                          !.credits = 0]
          [] ix.op = "withdraw" /\ sender ->
                [b EXCEPT !.available = @ - ix.amount, !.public = @ + ix.amount]
          [] ix.op = "transfer" /\ ix.account = ix.recipient /\ sender ->
                [b EXCEPT !.available = @ - ix.amount, !.pending = @ + ix.amount,
                          !.credits = @ + 1]
          [] ix.op = "transfer" /\ sender ->
                [b EXCEPT !.available = @ - ix.amount]
          [] ix.op = "transfer" /\ a = ix.recipient ->
                [b EXCEPT !.pending = @ + ix.amount, !.credits = @ + 1]
          [] OTHER -> b

\* Executing ix rewrites the available-balance ciphertext of account a.
Rewrites(led, ix, a) ==
    /\ a = ix.account
    /\ \/ ix.op \in {"withdraw", "transfer"}
       \/ ix.op = "apply_pending" /\ led[a].bal.credits >= 1

\* The ledger after a confirmed guarded transaction of rec.
Confirmed(led, rec) ==
    IF rec.kind = "create_account"
    THEN [led EXCEPT ![rec.acct] = ConfiguredAccount(rec)]
    ELSE [a \in Accounts |->
            [led[a] EXCEPT !.bal = Executed(led, Instruction(rec), a),
                           !.nonce = IF Rewrites(led, Instruction(rec), a)
                                     THEN @ + 1 ELSE @]]

TypeOK ==
    /\ DOMAIN run = Runs
    /\ \A r \in Runs :
          /\ run[r].kind \in Kinds \cup {"none", "generate_proof"}
          /\ run[r].acct \in Accounts \cup {NoAccount}
          /\ run[r].amount \in Amounts \cup {0}
          /\ run[r].k \in 0..Len(run[r].ctx)
          /\ run[r].recipient \in Accounts \cup {NoAccount}
          /\ run[r].order \in 0..Cardinality(Runs)
          /\ run[r].seen = NoCiphertext \/ run[r].kind \in {"transfer", "withdraw"}
    /\ DOMAIN ledger = Accounts
    /\ \A a \in Accounts :
          /\ ledger[a].bal.public \in Nat /\ ledger[a].bal.pending \in Nat
          /\ ledger[a].bal.available \in Nat
          /\ ledger[a].bal.credits \in 0..ledger[a].max_credits
          /\ ledger[a].nonce \in 0..Cardinality(Runs)
    /\ nextKey \in Nat
    /\ contexts \subseteq 1..nextKey
    /\ attest.pc \in {"none", "called", "returned"}
    /\ attest.available_balance \in Balances /\ attest.threshold \in Balances

\* The server has started and no request has arrived.  The ledger is older
\* than the server: its token accounts do not exist yet, or they are
\* configured and funded already, with their credit counters at zero or at
\* their maximum.
Init ==
    /\ run = [r \in Runs |-> IdleRun]
    /\ \/ ledger = [a \in Accounts |-> AbsentAccount]
       \/ ledger = [a \in Accounts |-> FundedAccount(a[2], a[3])]
       \/ ledger = [a \in Accounts |-> SaturatedAccount(a[2], a[3])]
    /\ contexts = {}
    /\ nextKey = 0
    /\ attest = NoAttest

\* Slot r takes a request: each slot serves one request, so a behaviour has
\* up to two requests, one after the other or concurrently, and a run that
\* has answered stays on record.
CanStart(r) == run[r].pc = "idle"

\* ------------------------------------------------------------ handler steps
\* Each operator below is the local code of a handler between two awaits: it
\* takes the run's record and the outcomes of the calls made there and gives
\* the record after them.  `fail` names the call whose `?` returns, or "none".

\* Keypair::new() never hands out the same keypair twice: the keypairs of a
\* request are numbered from nextKey + 1 on as the request is accepted, the
\* payer first, then the user keypair and the context keypairs; a request
\* generates at most one of each.
KeysPerRun == 2 + Len(ContextKinds("transfer"))

\* let user_keypair = Keypair::new(); generate_elgamal_keypair(&user_keypair,
\* &token_account); generate_aes_key(&user_keypair, &token_account)
DeriveKeys(rec, user_keypair) ==
    [rec EXCEPT !.signer = user_keypair,
                !.elgamal = generate_elgamal_keypair(user_keypair, rec.acct),
                !.aes = generate_aes_key(user_keypair, rec.acct)]

\* create_confidential_account up to get_latest_blockhash.
CreateAccountLocal(req, fail) ==
    IF req.malformed THEN Respond(req, BAD_REQUEST, "parse")
    ELSE LET paid == [req EXCEPT !.payer = nextKey + 1]
             keyed == DeriveKeys(paid, nextKey + 2)
         IN  CASE fail = "derive" ->
                    Respond([paid EXCEPT !.signer = nextKey + 2],
                            INTERNAL_SERVER_ERROR, "derive")
               [] fail \in {"proof", "build"} ->
                    Respond(keyed, INTERNAL_SERVER_ERROR, fail)
               [] OTHER -> [keyed EXCEPT !.pc = "blockhash"]

\* deposit_tokens up to get_latest_blockhash.
DepositLocal(req, fail) ==
    IF req.malformed THEN Respond(req, BAD_REQUEST, "parse")
    ELSE LET paid == [req EXCEPT !.payer = nextKey + 1]
         IN  IF fail = "build"
             THEN Respond(paid, INTERNAL_SERVER_ERROR, "build")
             ELSE [paid EXCEPT !.pc = "blockhash"]

\* apply_pending_balance, confidential_transfer, withdraw_tokens up to
\* client.get_account(..).await.
FetchLocal(req) ==
    IF req.malformed THEN Respond(req, BAD_REQUEST, "parse")
    ELSE [req EXCEPT !.payer = nextKey + 1, !.pc = "get_account"]

\* AccountFetched with the proof generator's error dropped instead of
\* returned: the handler goes on to stage contexts without a proof.
AccountFetched_IgnoreProof(rec, found, fail) ==
    LET keyed == DeriveKeys(rec, rec.payer + 1)
        n == Len(ContextKinds(rec.kind))
        minted == [keyed EXCEPT !.ctx = [i \in 1..n |-> rec.payer + 1 + i]]
    IN  CASE ~found -> Respond(rec, NOT_FOUND, "get_account")
          [] fail = "unpack" -> Respond(rec, INTERNAL_SERVER_ERROR, "unpack")
          [] fail = "derive" ->
                Respond([rec EXCEPT !.signer = rec.payer + 1],
                        INTERNAL_SERVER_ERROR, "derive")
          [] fail = "build" -> Respond(keyed, INTERNAL_SERVER_ERROR, fail)
          [] fail = "proof" -> [minted EXCEPT !.pc = "blockhash", !.failed = "proof"]
          [] fail = "encode" -> Respond(minted, INTERNAL_SERVER_ERROR, "encode")
          [] OTHER -> [minted EXCEPT !.pc = "blockhash"]

\* AccountFetched with one keypair generated for the proof contexts and used
\* for each of them.
AccountFetched_OneContextKey(rec, found, fail) ==
    LET keyed == DeriveKeys(rec, rec.payer + 1)
        n == Len(ContextKinds(rec.kind))
        minted == [keyed EXCEPT !.ctx = [i \in 1..n |-> rec.payer + 2]]
    IN  CASE ~found -> Respond(rec, NOT_FOUND, "get_account")
          [] fail = "unpack" -> Respond(rec, INTERNAL_SERVER_ERROR, "unpack")
          [] fail = "derive" ->
                Respond([rec EXCEPT !.signer = rec.payer + 1],
                        INTERNAL_SERVER_ERROR, "derive")
          [] fail \in {"proof", "build"} ->
                Respond(keyed, INTERNAL_SERVER_ERROR, fail)
          [] fail = "encode" -> Respond(minted, INTERNAL_SERVER_ERROR, "encode")
          [] OTHER -> [minted EXCEPT !.pc = "blockhash"]

\* From the answer of get_account to get_latest_blockhash: unpack the account,
\* derive the keys from a new keypair, and then
\*   apply_pending_balance: build the instruction;
\*   transfer, withdraw: generate the proofs, mint one keypair per proof
\*   context, encode the first context's instruction.
AccountFetched(rec, found, fail) ==
    LET keyed == DeriveKeys(rec, rec.payer + 1)
        n == Len(ContextKinds(rec.kind))
        minted == [keyed EXCEPT !.ctx = [i \in 1..n |-> rec.payer + 1 + i]]
    IN  CASE ~found -> Respond(rec, NOT_FOUND, "get_account")
          [] fail = "unpack" -> Respond(rec, INTERNAL_SERVER_ERROR, "unpack")
          [] fail = "derive" ->
                Respond([rec EXCEPT !.signer = rec.payer + 1],
                        INTERNAL_SERVER_ERROR, "derive")
          [] fail \in {"proof", "build"} ->
                Respond(keyed, INTERNAL_SERVER_ERROR, fail)
          [] fail = "encode" -> Respond(minted, INTERNAL_SERVER_ERROR, "encode")
          [] OTHER -> [minted EXCEPT !.pc = "blockhash"]

\* The local calls that can fail after get_account, by handler.
FetchFailures(rec) ==
    IF rec.kind = "apply_pending"
    THEN {"none", "unpack", "derive", "build"}
    ELSE {"unpack", "derive", "proof"}
         \cup (IF TRUE \in ProofOutcomes(rec.amount) THEN {"none", "encode"} ELSE {})

\* BlockhashFetched with the closes moved ahead of the context creations.
BlockhashFetched_CloseFirst(rec, ok) ==
    IF ~ok THEN Respond(rec, INTERNAL_SERVER_ERROR, "blockhash")
    ELSE [rec EXCEPT !.pc = IF Len(rec.ctx) > 0 THEN "close" ELSE "guarded"]

\* get_latest_blockhash answered.
BlockhashFetched(rec, ok) ==
    IF ~ok THEN Respond(rec, INTERNAL_SERVER_ERROR, "blockhash")
    ELSE [rec EXCEPT !.pc = IF Len(rec.ctx) > 0 THEN "create" ELSE "guarded"]

\* ContextCreated with the guarded operation submitted as soon as one context
\* exists, the remaining contexts never created.
ContextCreated_SkipRest(rec, enc, ok) ==
    LET i == rec.k + 1
        sent == Logged(rec, Submission("create", rec.ctx[i], <<>>,
                                       ContextKinds(rec.kind)[i], ok))
    IN  IF ~enc THEN Respond(rec, INTERNAL_SERVER_ERROR, "encode")
        ELSE IF ~ok THEN Respond(sent, INTERNAL_SERVER_ERROR, "create")
        ELSE [sent EXCEPT !.k = i, !.pc = "guarded"]

\* ContextCreated with a failed creation's error dropped (.ok() for ?).
ContextCreated_Continue(rec, enc, ok) ==
    LET i == rec.k + 1
        sent == Logged(rec, Submission("create", rec.ctx[i], <<>>,
                                       ContextKinds(rec.kind)[i], ok))
    IN  IF ~enc THEN Respond(rec, INTERNAL_SERVER_ERROR, "encode")
        ELSE [sent EXCEPT !.k = i,
                          !.pc = IF i = Len(rec.ctx) THEN "guarded" ELSE "create"]

\* ContextCreated with a rejected creation submitted again.
ContextCreated_Retry(rec, enc, ok) ==
    LET i == rec.k + 1
        sent == Logged(rec, Submission("create", rec.ctx[i], <<>>,
                                       ContextKinds(rec.kind)[i], ok))
    IN  IF ~enc THEN Respond(rec, INTERNAL_SERVER_ERROR, "encode")
        ELSE IF ~ok THEN sent
        ELSE [sent EXCEPT !.k = i,
                          !.pc = IF i = Len(rec.ctx) THEN "guarded" ELSE "create"]

\* The creation of proof context k + 1: encode its instruction (the first one
\* was encoded before the blockhash), submit, and on confirmation go on to the
\* next context or to the guarded operation.
ContextCreated(rec, enc, ok) ==
    LET i == rec.k + 1
        sent == Logged(rec, Submission("create", rec.ctx[i], <<>>,
                                       ContextKinds(rec.kind)[i], ok))
    IN  IF ~enc THEN Respond(rec, INTERNAL_SERVER_ERROR, "encode")
        ELSE IF ~ok THEN Respond(sent, INTERNAL_SERVER_ERROR, "create")
        ELSE [sent EXCEPT !.k = i,
                          !.pc = IF i = Len(rec.ctx) THEN "guarded" ELSE "create"]

\* InlineProof with the proof data left out of the configure transaction.
InlineProof_Omitted(kind) == "none"

\* The sub-proof the guarded transaction itself carries as instruction data:
\* ProofLocation::InstructionOffset(1, InstructionData(&proof_data)).
InlineProof(kind) ==
    IF kind = "create_account" THEN "pubkey_validity" ELSE "none"

\* GuardedSubmitted with the ledger's rejection dropped (.ok() for ?).
GuardedSubmitted_Swallow(rec, built, ok) ==
    LET sent == Logged(rec, Submission("guarded", 0, rec.ctx,
                                       InlineProof(rec.kind), ok))
    IN  IF ~built THEN Respond(rec, INTERNAL_SERVER_ERROR, "build")
        ELSE IF Len(rec.ctx) = 0 THEN RespondOk(sent)
        ELSE [sent EXCEPT !.pc = "close", !.k = 0]

\* GuardedSubmitted with the proof contexts named in reverse order.
GuardedSubmitted_SwapRefs(rec, built, ok) ==
    LET n == Len(rec.ctx)
        sent == Logged(rec, Submission("guarded", 0,
                                       [i \in 1..n |-> rec.ctx[n + 1 - i]],
                                       InlineProof(rec.kind), ok))
    IN  IF ~built THEN Respond(rec, INTERNAL_SERVER_ERROR, "build")
        ELSE IF ~ok THEN Respond(sent, INTERNAL_SERVER_ERROR, "guarded")
        ELSE IF Len(rec.ctx) = 0 THEN RespondOk(sent)
        ELSE [sent EXCEPT !.pc = "close", !.k = 0]

\* GuardedSubmitted with an apply-pending on an account whose credit counter
\* is zero answered as an error.
GuardedSubmitted_RejectIdle(rec, built, ok) ==
    LET sent == Logged(rec, Submission("guarded", 0, rec.ctx,
                                       InlineProof(rec.kind), ok))
    IN  IF ~built THEN Respond(rec, INTERNAL_SERVER_ERROR, "build")
        ELSE IF ~ok THEN Respond(sent, INTERNAL_SERVER_ERROR, "guarded")
        ELSE IF rec.kind = "apply_pending" /\ ledger[rec.acct].bal.credits = 0
             THEN Respond(sent, BAD_REQUEST, "guarded")
        ELSE IF Len(rec.ctx) = 0 THEN RespondOk(sent)
        ELSE [sent EXCEPT !.pc = "close", !.k = 0]

\* The guarded operation: build the instruction (transfer and withdraw build
\* it here, naming their proof contexts), submit, and on confirmation close
\* the contexts or answer.
GuardedSubmitted(rec, built, ok) ==
    LET sent == Logged(rec, Submission("guarded", 0, rec.ctx,
                                       InlineProof(rec.kind), ok))
    IN  IF ~built THEN Respond(rec, INTERNAL_SERVER_ERROR, "build")
        ELSE IF ~ok THEN Respond(sent, INTERNAL_SERVER_ERROR, "guarded")
        ELSE IF Len(rec.ctx) = 0 THEN RespondOk(sent)
        ELSE [sent EXCEPT !.pc = "close", !.k = 0]

\* ContextClosed with a failed close returned to the caller (? for .ok()).
ContextClosed_Propagate(rec, ok) ==
    LET i == rec.k + 1
        sent == Logged(rec, Submission("close", rec.ctx[i], <<>>, "none", ok))
    IN  IF ~ok THEN Respond([sent EXCEPT !.k = i], INTERNAL_SERVER_ERROR, "close")
        ELSE IF i = Len(rec.ctx) THEN RespondOk([sent EXCEPT !.k = i])
        ELSE [sent EXCEPT !.k = i]

\* ContextClosed with the guarded operation submitted again after a failed
\* close.
ContextClosed_Resubmit(rec, ok) ==
    LET i == rec.k + 1
        sent == Logged(rec, Submission("close", rec.ctx[i], <<>>, "none", ok))
    IN  IF ~ok THEN [sent EXCEPT !.k = i, !.pc = "guarded"]
        ELSE IF i = Len(rec.ctx) THEN RespondOk([sent EXCEPT !.k = i])
        ELSE [sent EXCEPT !.k = i]

\* client.send_and_confirm_transaction(&close_tx).await.ok(): the answer is
\* dropped; after the last close the handler answers success.
ContextClosed(rec, ok) ==
    LET i == rec.k + 1
        sent == Logged(rec, Submission("close", rec.ctx[i], <<>>, "none", ok))
    IN  IF i = Len(rec.ctx) THEN RespondOk([sent EXCEPT !.k = i])
        ELSE [sent EXCEPT !.k = i]

\* ------------------------------------------------------------ actions
\* A handler is entered with a request.
Enter(r, rec) ==
    /\ run' = [run EXCEPT ![r] = rec]
    /\ nextKey' = nextKey + KeysPerRun
    /\ UNCHANGED attest
    /\ UNCHANGED <<ledger, contexts>>

Step(r, rec) ==
    /\ run' = [run EXCEPT ![r] = rec]
    /\ UNCHANGED <<nextKey, attest>>

create_confidential_account(r) ==
    /\ CanStart(r)
    /\ \E w \in Wallets, m \in Mints, malformed \in BOOLEAN,
          fail \in {"none", "derive", "proof", "build"} :
          Enter(r, CreateAccountLocal(
                       Parsed("create_account", w,
                              get_associated_token_address(w, m), 0, malformed),
                       fail))

deposit_tokens(r) ==
    /\ CanStart(r)
    /\ \E w \in Wallets, a \in Accounts, amt \in Amounts, malformed \in BOOLEAN,
          fail \in {"none", "build"} :
          /\ Holds(w, a)
          /\ Enter(r, DepositLocal(Parsed("deposit", w, a, amt, malformed), fail))

apply_pending_balance(r) ==
    /\ CanStart(r)
    /\ \E w \in Wallets, a \in Accounts, malformed \in BOOLEAN :
          /\ Holds(w, a)
          /\ Enter(r, FetchLocal(Parsed("apply_pending", w, a, 0, malformed)))

confidential_transfer(r) ==
    /\ CanStart(r)
    /\ \E w \in Wallets, a \in Accounts, amt \in Amounts, malformed \in BOOLEAN,
          b \in Accounts :
          /\ Holds(w, a) /\ b # a
          /\ Enter(r, FetchLocal([Parsed("transfer", w, a, amt, malformed)
                                     EXCEPT !.recipient =
                                         IF malformed THEN NoAccount ELSE b]))

withdraw_tokens(r) ==
    /\ CanStart(r)
    /\ \E w \in Wallets, a \in Accounts, amt \in Amounts, malformed \in BOOLEAN :
          /\ Holds(w, a)
          /\ Enter(r, FetchLocal(Parsed("withdraw", w, a, amt, malformed)))

\* client.get_account(&token_account).await returns: the account is found
\* when the request reaches the ledger and the ledger holds the account.  A
\* transfer or withdraw keeps the account's confidential state as fetched.
GetAccount(r) ==
    /\ run[r].pc = "get_account"
    /\ \E rpc_ok \in BOOLEAN, fail \in FetchFailures(run[r]) :
          LET found == rpc_ok /\ ledger[run[r].acct].exists
              info == IF found /\ run[r].kind \in {"transfer", "withdraw"}
                      THEN AvailableCiphertext(ledger[run[r].acct])
                      ELSE NoCiphertext
          IN  Step(r, AccountFetched([run[r] EXCEPT !.seen = info], found, fail))
    /\ UNCHANGED <<ledger, contexts>>

\* client.get_latest_blockhash().await returns.
GetLatestBlockhash(r) ==
    /\ run[r].pc = "blockhash"
    /\ \E ok \in BOOLEAN : Step(r, BlockhashFetched(run[r], ok))
    /\ UNCHANGED <<ledger, contexts>>

\* send_and_confirm_transaction of a proof-context creation returns.
CreateContext(r) ==
    /\ run[r].pc = "create"
    /\ \E enc \in (IF run[r].k = 0 THEN {TRUE} ELSE BOOLEAN), ok \in BOOLEAN :
          /\ Step(r, ContextCreated(run[r], enc, ok))
          /\ contexts' = IF enc /\ ok
                         THEN contexts \cup {run[r].ctx[run[r].k + 1]}
                         ELSE contexts
    /\ UNCHANGED ledger

\* send_and_confirm_transaction of the guarded operation returns: the
\* transaction is confirmed when it is delivered and the ledger program
\* accepts it.  The run keeps, as history, whether it was delivered, its
\* place among the guarded submissions, and the balances of its account
\* before and after.
SubmitGuarded(r) ==
    /\ run[r].pc = "guarded"
    /\ \E built \in (IF Len(run[r].ctx) = 0 THEN {TRUE} ELSE BOOLEAN),
          delivered \in BOOLEAN :
          LET ok == delivered /\ Accepts(ledger, Instruction(run[r]))
          IN  /\ ledger' = IF built /\ ok THEN Confirmed(ledger, run[r])
                           ELSE ledger
              /\ Step(r, IF built
                         THEN [GuardedSubmitted(run[r], built, ok)
                                 EXCEPT !.delivered = delivered,
                                        !.order = 1 + Cardinality(
                                            {q \in Runs : run[q].order > 0}),
                                        !.before = ledger[run[r].acct].bal,
                                        !.after = ledger'[run[r].acct].bal]
                         ELSE GuardedSubmitted(run[r], built, ok))
    /\ UNCHANGED contexts

\* send_and_confirm_transaction of a close_context_state returns.
CloseContext(r) ==
    /\ run[r].pc = "close"
    /\ \E ok \in BOOLEAN :
          /\ Step(r, ContextClosed(run[r], ok))
          /\ contexts' = IF ok THEN contexts \ {run[r].ctx[run[r].k + 1]}
                         ELSE contexts
    /\ UNCHANGED ledger

Next ==
    \E r \in Runs :
        \/ create_confidential_account(r)
        \/ deposit_tokens(r)
        \/ apply_pending_balance(r)
        \/ confidential_transfer(r)
        \/ withdraw_tokens(r)
        \/ GetAccount(r)
        \/ GetLatestBlockhash(r)
        \/ CreateContext(r)
        \/ SubmitGuarded(r)
        \/ CloseContext(r)

Spec == Init /\ [][Next]_vars

\* The round-trip a run is waiting for returns: every RpcClient call is
\* awaited and comes back with an answer or an error.
Returns(r) ==
    \/ GetAccount(r)
    \/ GetLatestBlockhash(r)
    \/ CreateContext(r)
    \/ SubmitGuarded(r)
    \/ CloseContext(r)

\* Spec with awaited ledger requests eventually returning: while some run
\* waits for an answer, some waiting run gets one.
LiveSpec == Spec /\ WF_vars(\E r \in Runs : Returns(r))

\* --------------------------------------------- the eligibility prover alone
\* generate_eligibility_proof is called with any balance and threshold, at
\* any time, while the server is otherwise idle.
ProverInit ==
    /\ run = [r \in Runs |-> IdleRun]
    /\ ledger = [a \in Accounts |-> AbsentAccount]
    /\ contexts = {}
    /\ nextKey = 0
    /\ attest \in {Called(b, t, now) : b \in Balances, t \in Balances,
                                       now \in Timestamps}

\* The call returns.
Attest ==
    /\ attest.pc = "called"
    /\ attest' = [attest EXCEPT
                    !.pc = "returned",
                    !.result = generate_eligibility_proof(
                                   attest.available_balance, attest.threshold,
                                   attest.now)]
    /\ UNCHANGED <<run, ledger, contexts, nextKey>>

ProverSpec == ProverInit /\ [][Attest]_vars

\* --------------------------------------------- the generate-proof endpoint
\* A funded token account whose available balance is b.
HoldingAccount(wallet, mint, b) ==
    LET a == get_associated_token_address(wallet, mint)
    IN  [FundedAccount(wallet, mint) EXCEPT
            !.decryptable = AeEncrypt(generate_aes_key(0, a), b),
            !.bal = [@ EXCEPT !.available = b]]

\* The server has started; each token account holds some available balance.
EndpointInit ==
    /\ run = [r \in Runs |-> IdleRun]
    /\ ledger \in {[a \in Accounts |-> HoldingAccount(a[2], a[3], held[a])] :
                      held \in [Accounts -> Balances]}
    /\ contexts = {}
    /\ nextKey = 0
    /\ attest = NoAttest

\* generate_proof: the request names a wallet, a token account and a
\* threshold.  The handler parses no address, makes no ledger request and
\* passes the placeholder balance to generate_eligibility_proof; the answer
\* carries the proof, the public inputs (wallet address, threshold) and the
\* flag.
GenerateProofLocal(wallet, acct, threshold, now) ==
    LET result == generate_eligibility_proof(placeholder_available_balance,
                                             threshold, now)
        req == [IdleRun EXCEPT !.kind = "generate_proof", !.wallet = wallet,
                               !.acct = acct, !.threshold = threshold]
    IN  IF ~result.ok THEN Respond(req, INTERNAL_SERVER_ERROR, "proof")
        ELSE RespondOk([req EXCEPT !.eligible = result.eligible,
                                   !.proof = result.proof,
                                   !.public_inputs =
                                       <<wallet, to_string(threshold)>>])

generate_proof(r) ==
    /\ CanStart(r)
    /\ \E w \in Wallets, a \in Accounts, t \in Balances, now \in Timestamps :
          /\ Holds(w, a)
          /\ run' = [run EXCEPT ![r] = GenerateProofLocal(w, a, t, now)]
    /\ UNCHANGED <<ledger, contexts, nextKey, attest>>

EndpointSpec == EndpointInit /\ [][\E r \in Runs : generate_proof(r)]_vars

\* ------------------------------------------------------------ properties
Choreographed(rec) == rec.kind \in {"transfer", "withdraw"}
Done(rec) == rec.pc = "done"
ReportsSuccess(rec) == rec.resp.hasBody /\ rec.resp.success
ReportsFailure(rec) == Done(rec) /\ ~ReportsSuccess(rec)
GuardedConfirmed(rec) ==
    \E g \in DOMAIN rec.log : rec.log[g].op = "guarded" /\ rec.log[g].ok
\* Context i of the run was confirmed as created.
Created(rec, i) ==
    \E c \in DOMAIN rec.log :
        rec.log[c].op = "create" /\ rec.log[c].id = rec.ctx[i] /\ rec.log[c].ok
\* A close of context i of the run was submitted.
CloseAttempted(rec, i) ==
    \E c \in DOMAIN rec.log : rec.log[c].op = "close" /\ rec.log[c].id = rec.ctx[i]
FailedCreate(rec, i) ==
    i \in DOMAIN rec.log /\ rec.log[i].op = "create" /\ ~rec.log[i].ok

\* C1: in every handler, a response with success = true is returned only if
\* the ledger confirmed the submission of the run's guarded operation.
C1_SuccessOnlyIfConfirmed ==
    \A r \in Runs : ReportsSuccess(run[r]) => GuardedConfirmed(run[r])

C1_Witness ==
    \E r \in Runs : run[r].kind = "transfer" /\ ReportsSuccess(run[r])

\* C2: when the creation of the k-th proof context (k >= 2) of a transfer or
\* withdraw fails, a close is still submitted for every context the run had
\* created, and the run reports failure.
C2_CleanupAfterCreateFailure ==
    \A r \in Runs :
        (Choreographed(run[r]) /\ Done(run[r]) /\ run[r].k >= 1
            /\ FailedCreate(run[r], Len(run[r].log)))
        => /\ \A i \in 1..run[r].k : CloseAttempted(run[r], i)
           /\ ReportsFailure(run[r])

\* C3: when every proof context was created and the guarded operation's
\* submission fails, a close is still submitted for every created context
\* before the run ends, and the caller gets the guarded operation's failure.
C3_CleanupAfterGuardedFailure ==
    \A r \in Runs :
        (Choreographed(run[r]) /\ Done(run[r]) /\ run[r].failed = "guarded")
        => /\ \A i \in DOMAIN run[r].ctx : CloseAttempted(run[r], i)
           /\ run[r].resp.status = INTERNAL_SERVER_ERROR

\* C4: in a transfer or withdraw whose guarded operation confirmed, every
\* proof context's creation was confirmed before the guarded operation was
\* submitted, and every close was submitted after it.
C4_ChoreographyOrder ==
    \A r \in Runs :
        (Choreographed(run[r]) /\ GuardedConfirmed(run[r]))
        => \E g \in DOMAIN run[r].log :
              /\ run[r].log[g].op = "guarded" /\ run[r].log[g].ok
              /\ Len(run[r].ctx) = Len(ContextKinds(run[r].kind))
              /\ \A i \in DOMAIN run[r].ctx :
                    \E c \in 1..(g - 1) :
                        /\ run[r].log[c].op = "create"
                        /\ run[r].log[c].id = run[r].ctx[i]
                        /\ run[r].log[c].ok
              /\ \A j \in DOMAIN run[r].log :
                    /\ run[r].log[j].op = "create" => j < g
                    /\ run[r].log[j].op = "close" => j > g

C4_Witness ==
    \E r \in Runs :
        /\ run[r].kind = "transfer" /\ ReportsSuccess(run[r])
        /\ Len(run[r].log) = 7

\* C5: a failed close never changes the result: a transfer or withdraw whose
\* guarded operation confirmed never answers failure, answers success
\* whatever the closes returned, and submits one close per context even
\* after a close failed.
C5_CloseFailuresSwallowed ==
    \A r \in Runs :
        (Choreographed(run[r]) /\ GuardedConfirmed(run[r]))
        => /\ run[r].resp = NoResp \/ ReportsSuccess(run[r])
           /\ Done(run[r]) => \A i \in DOMAIN run[r].ctx : CloseAttempted(run[r], i)
           /\ \A i \in 1..run[r].k : CloseAttempted(run[r], i)

\* The first close of a transfer failed, the two after it were still
\* submitted (one confirmed, one failed), and the answer is success.
C5_Witness ==
    \E r \in Runs :
        /\ run[r].kind = "transfer" /\ ReportsSuccess(run[r])
        /\ Len(run[r].log) = 7
        /\ ~run[r].log[5].ok /\ run[r].log[6].ok /\ ~run[r].log[7].ok

\* C6: once the creation of a proof context failed, the run has ended: no
\* further context is created and the guarded operation is never submitted.
C6_NoProgressAfterCreateFailure ==
    \A r \in Runs :
        \A i \in DOMAIN run[r].log :
            FailedCreate(run[r], i)
            => /\ Done(run[r])
               /\ \A j \in DOMAIN run[r].log :
                     j > i => run[r].log[j].op \notin {"create", "guarded"}
               /\ \A j \in DOMAIN run[r].ctx :
                     run[r].ctx[j] \in contexts => Created(run[r], j)

\* The first context of a transfer failed to be created.
C6_Witness ==
    \E r \in Runs :
        /\ run[r].kind = "transfer" /\ FailedCreate(run[r], 1)
        /\ Done(run[r])

\* C7: when proof generation fails in a transfer or withdraw, the run reports
\* failure and has submitted nothing: no context created, no guarded
\* operation, no close.
C7_ProofFailureSubmitsNothing ==
    \A r \in Runs :
        (Choreographed(run[r]) /\ run[r].failed = "proof")
        => /\ ReportsFailure(run[r])
           /\ run[r].resp.status = INTERNAL_SERVER_ERROR
           /\ run[r].log = <<>>
           /\ run[r].ctx = <<>>

\* A transfer of an amount above the provable ceiling failed in proof
\* generation.
C7_Witness ==
    \E r \in Runs :
        /\ run[r].kind = "transfer" /\ run[r].failed = "proof"
        /\ run[r].amount > ProvableCeiling
        /\ Done(run[r])

\* C8: the keys a later operation (apply pending, transfer, withdraw) derives
\* for a holder's token account are the keys create account installed for
\* that account.
C8_KeysMatchInstalled ==
    \A r \in Runs :
        (/\ run[r].kind \in {"apply_pending", "transfer", "withdraw"}
         /\ run[r].elgamal # NoKeys
         /\ ledger[run[r].acct].exists
         /\ ledger[run[r].acct].owner = run[r].wallet)
        => /\ run[r].elgamal = ledger[run[r].acct].elgamal
           /\ AeEncrypt(run[r].aes, 0) = ledger[run[r].acct].decryptable

SubProofs(kind) ==
    CASE kind = "transfer" -> 3
      [] kind = "withdraw" -> 2
      [] kind = "create_account" -> 1
      [] OTHER -> 0

\* Number of the run's contexts confirmed as created before log entry g.
CreatedBefore(rec, g) ==
    Cardinality({i \in DOMAIN rec.ctx :
                   \E c \in 1..(g - 1) :
                       /\ rec.log[c].op = "create" /\ rec.log[c].ok
                       /\ rec.log[c].id = rec.ctx[i]})

Submitted(rec, op) == {j \in DOMAIN rec.log : rec.log[j].op = op}

\* C12: a run makes a bounded number of submissions and repeats none: at most
\* one creation and one close per proof context and one guarded operation,
\* so at most 3 + 1 + 3 for a transfer and 2 + 1 + 2 for a withdraw, whatever
\* the ledger answered.
C12_BoundedSubmissions ==
    \A r \in Runs :
        LET rec == run[r]
            n == Len(ContextKinds(rec.kind))
        IN  /\ Cardinality(Submitted(rec, "create")) <= n
            /\ Cardinality(Submitted(rec, "guarded")) <= 1
            /\ Cardinality(Submitted(rec, "close")) <= n
            /\ Len(rec.log) <= 2 * n + 1
            /\ rec.kind = "transfer" => n = 3
            /\ rec.kind = "withdraw" => n = 2
            /\ \A i, j \in DOMAIN rec.log :
                  (i # j /\ rec.log[i].op = rec.log[j].op)
                  => rec.log[i].id # rec.log[j].id

\* A transfer has ended after all seven submissions, three creations, the
\* guarded operation and three closes, with a rejected close among them.
C12_Witness ==
    \E r \in Runs :
        /\ run[r].kind = "transfer" /\ Done(run[r])
        /\ Cardinality(Submitted(run[r], "create")) = 3
        /\ Cardinality(Submitted(run[r], "guarded")) = 1
        /\ Cardinality(Submitted(run[r], "close")) = 3
        /\ \E j \in Submitted(run[r], "close") : ~run[r].log[j].ok

\* The phase of a run, read off its position: Draft until every context is
\* confirmed, ContextsStaged while the guarded operation is built and
\* awaited, OperationSubmitted once it is confirmed, Cleanup from the first
\* close on, and Done or Abandoned when the handler has answered.
Phase(rec) ==
    CASE rec.pc = "idle" -> "Idle"
      [] rec.pc \in {"get_account", "blockhash", "create"} -> "Draft"
      [] rec.pc = "guarded" -> "ContextsStaged"
      [] rec.pc = "close" /\ rec.k = 0 -> "OperationSubmitted"
      [] rec.pc = "close" /\ rec.k > 0 -> "Cleanup"
      [] OTHER -> IF ReportsSuccess(rec) THEN "Done" ELSE "Abandoned"

PhaseRank(phase) ==
    CASE phase = "Idle" -> 0
      [] phase = "Draft" -> 1
      [] phase = "ContextsStaged" -> 2
      [] phase = "OperationSubmitted" -> 3
      [] phase = "Cleanup" -> 4
      [] OTHER -> 5

\* One step of run r as its phases see it: the phase stays or moves forward;
\* the run is
\* in OperationSubmitted only with every required context Created, and an
\* answer is final.
PhaseStep(r) ==
    LET old == Phase(run[r])
        new == Phase(run'[r])
    IN  IF run[r].pc = "idle" THEN TRUE
        ELSE IF run[r].pc = "done" THEN run'[r] = run[r]
        ELSE /\ PhaseRank(new) >= PhaseRank(old)
             /\ new = "OperationSubmitted"
                  => /\ old \in {"ContextsStaged", "OperationSubmitted"}
                     /\ Len(run[r].ctx) = Len(ContextKinds(run[r].kind))
                     /\ \A i \in DOMAIN run[r].ctx : Created(run[r], i)
             /\ new = "Cleanup" => old \in {"OperationSubmitted", "Cleanup"}
             /\ new = "Done" => old \in {"ContextsStaged", "Cleanup"}

\* C13: the phase of a run only moves forward, Draft, ContextsStaged,
\* OperationSubmitted, Cleanup, Done, or to Abandoned on a failure;
\* OperationSubmitted is entered only after every required context is
\* Created; and, every ledger request returning, every run that was started
\* ends in Done or Abandoned (again and again no run is left in between).
C13_PhasesForwardAndEnd ==
    /\ [][\A r \in Runs : PhaseStep(r)]_vars
    /\ []<>(\A r \in Runs : Phase(run[r]) \in {"Idle", "Done", "Abandoned"})

\* A transfer went through every phase and is Done.
C13_Witness ==
    \E r \in Runs :
        /\ run[r].kind = "transfer" /\ Phase(run[r]) = "Done"
        /\ GuardedConfirmed(run[r]) /\ run[r].k = Len(run[r].ctx)

ClientError(status) == status >= 400 /\ status <= 499
ServerError(status) == status >= 500 /\ status <= 599

\* C14: a request with a malformed identifier is answered with a 4xx status
\* before any ledger round trip; a request whose target token account is
\* missing on the ledger (and that no other failure ended first) is answered
\* with a 4xx status before any submission; a failure of key derivation,
\* proof generation or a ledger submission is answered with a 5xx status.
C14_StatusByFailure ==
    \A r \in Runs :
        LET rec == run[r]
        IN  Done(rec)
            => /\ rec.malformed
                  => /\ ClientError(rec.resp.status)
                     /\ rec.payer = 0 /\ rec.log = <<>>
               /\ (/\ ~rec.malformed /\ rec.kind # "create_account"
                   /\ ~ledger[rec.acct].exists
                   /\ rec.failed \notin {"build", "blockhash"})
                  => ClientError(rec.resp.status) /\ rec.log = <<>>
               /\ rec.failed \in {"derive", "proof", "create", "guarded"}
                  => ServerError(rec.resp.status)

\* C15: the answer of a run that failed in a context creation differs from
\* the answer of a run that failed in its guarded operation's submission, so
\* the caller can tell the two failures apart.
C15_FailedStepReported ==
    \A r, q \in Runs :
        (/\ Choreographed(run[r]) /\ Done(run[r]) /\ run[r].failed = "create"
         /\ Choreographed(run[q]) /\ Done(run[q]) /\ run[q].failed = "guarded")
        => run[r].resp # run[q].resp

\* The proof-context identities a run generated.
ContextIds(rec) == {rec.ctx[i] : i \in DOMAIN rec.ctx}

\* C16: proof-context identities are never reused: the identities of one run
\* are pairwise distinct, no identity of one run is an identity of another
\* run, earlier or concurrent, and none is the run's payer or user keypair.
C16_ContextIdsFresh ==
    /\ \A r \in Runs :
          /\ Cardinality(ContextIds(run[r])) = Len(run[r].ctx)
          /\ ContextIds(run[r]) \cap {run[q].payer : q \in Runs} = {}
          /\ ContextIds(run[r]) \cap {run[q].signer : q \in Runs} = {}
    /\ \A r, q \in Runs :
          r # q => ContextIds(run[r]) \cap ContextIds(run[q]) = {}
    /\ contexts \subseteq UNION {ContextIds(run[r]) : r \in Runs}

\* Two transfers are in flight at once, each with its three identities, and
\* a context of each exists on the ledger.
C16_Witness ==
    \A r \in Runs :
        /\ run[r].kind = "transfer" /\ run[r].pc = "create"
        /\ Len(run[r].ctx) = 3
        /\ ContextIds(run[r]) \cap contexts # {}

\* C17: for every balance b and threshold t, generate_eligibility_proof(b, t)
\* succeeds and its boolean is true exactly when b >= t, b = t included.
C17_EligibleIffAtLeast ==
    attest.pc = "returned"
    => /\ attest.result.ok
       /\ attest.result.eligible
             <=> (attest.available_balance >= attest.threshold)

\* The prover returned for a balance equal to the threshold.
C17_Witness ==
    /\ attest.pc = "returned" /\ attest.result.eligible
    /\ attest.available_balance = attest.threshold
    /\ attest.threshold > 0

\* s contains pat (str::contains).
Contains(s, pat) ==
    \E i \in 1..(Len(s) - Len(pat) + 1) : SubSeq(s, i, i + Len(pat) - 1) = pat

\* The fields of s between the separators sep.
RECURSIVE Split(_, _)
Split(s, sep) ==
    IF s = <<>> THEN << <<>> >>
    ELSE LET rest == Split(Tail(s), sep)
         IN  IF Head(s) = sep THEN << <<>> >> \o rest
             ELSE << <<Head(s)>> \o Head(rest) >> \o Tail(rest)

\* The number a string of decimal digits denotes.
RECURSIVE ParseDecimal(_)
ParseDecimal(s) ==
    IF s = <<>> THEN 0
    ELSE 10 * ParseDecimal(SubSeq(s, 1, Len(s) - 1))
         + (CHOOSE d \in 0..9 : Digits[d + 1] = s[Len(s)])

\* C18: the attestation string identifies the outcome: when eligible it
\* reads proof:eligible:<b>:<t>:<timestamp> with b and t the decimal forms
\* of the balance and threshold given, when not eligible it is exactly
\* proof:ineligible, and it contains "ineligible" exactly when the boolean
\* is false.
C18_AttestationString ==
    attest.pc = "returned"
    => LET proof == attest.result.proof
           fields == Split(proof, ":")
       IN  /\ attest.result.eligible
              => /\ Len(fields) = 5
                 /\ fields[1] = <<"p", "r", "o", "o", "f">>
                 /\ fields[2] = <<"e", "l", "i", "g", "i", "b", "l", "e">>
                 /\ \A f \in 3..5 :
                       /\ fields[f] # <<>>
                       /\ \A c \in DOMAIN fields[f] :
                             \E d \in DOMAIN Digits : fields[f][c] = Digits[d]
                 /\ ParseDecimal(fields[3]) = attest.available_balance
                 /\ ParseDecimal(fields[4]) = attest.threshold
                 /\ ParseDecimal(fields[5]) = attest.now
           /\ ~attest.result.eligible => proof = <<"p", "r", "o", "o", "f", ":", "i", "n", "e", "l", "i", "g", "i", "b", "l", "e">>
           /\ Contains(proof, <<"i", "n", "e", "l", "i", "g", "i", "b", "l", "e">>) <=> ~attest.result.eligible

\* The prover returned an eligible attestation for a two-digit balance above
\* the threshold.
C18_Witness ==
    /\ attest.pc = "returned" /\ attest.result.eligible
    /\ attest.available_balance >= 10
    /\ attest.available_balance > attest.threshold
    /\ attest.now > 0

\* C19: a deposit that reaches the ledger with amount <= public balance
\* reports success, takes amount from the public balance, adds amount to the
\* pending balance and leaves the available balance as it was; with
\* amount > public balance it is rejected and no balance changes.
C19_DepositMovesPublicToPending ==
    \A r \in Runs :
        LET rec == run[r]
        IN  (rec.kind = "deposit" /\ Done(rec) /\ rec.delivered)
            => IF rec.amount <= rec.before.public
               THEN /\ ReportsSuccess(rec)
                    /\ rec.after.public = rec.before.public - rec.amount
                    /\ rec.after.pending = rec.before.pending + rec.amount
                    /\ rec.after.available = rec.before.available
               ELSE /\ ReportsFailure(rec)
                    /\ rec.after = rec.before

C21_ApplyOnZeroCounter ==
    \A r \in Runs :
        LET rec == run[r]
        IN  (/\ rec.kind = "apply_pending" /\ Done(rec) /\ rec.delivered
             /\ rec.before.credits = 0)
            => /\ ReportsSuccess(rec)
               /\ rec.after = rec.before

\* An apply-pending on a funded account with nothing pending was answered,
\* and the account still holds its available balance.
C21_Witness ==
    \E r \in Runs :
        /\ run[r].kind = "apply_pending" /\ Done(run[r]) /\ run[r].delivered
        /\ run[r].before.credits = 0 /\ run[r].before.available > 0
        /\ ledger[run[r].acct].bal = run[r].before

\* The step in which the ledger confirms the guarded operation of run r.
GuardedExecutes(r) ==
    /\ run[r].pc = "guarded"
    /\ GuardedConfirmed(run'[r])

\* The ledger's accounts keep everything but their balances (and the
\* ciphertext form of them).
SameAccounts(old, new) ==
    \A a \in Accounts :
        [new[a] EXCEPT !.bal = NoBalances, !.nonce = 0]
            = [old[a] EXCEPT !.bal = NoBalances, !.nonce = 0]

TransferOverdrawn ==
    \E r \in Runs :
        /\ run[r].kind = "transfer" /\ run[r].delivered
        /\ run[r].amount > run[r].before.available

\* C23: the step that executes a withdraw finds amount <= the account's
\* available balance, takes amount from the available balance, adds amount
\* to the public balance and leaves the pending balance, the counter and
\* every other account as they were; a withdraw reports success only after
\* such a step, and one submitted with amount > available is never confirmed
\* and never reports success.
C23_WithdrawEffects ==
    /\ [][\A r \in Runs :
            (run[r].kind = "withdraw" /\ GuardedExecutes(r))
            => LET s == run[r].acct
                   amt == run[r].amount
               IN  /\ amt <= ledger[s].bal.available
                   /\ SameAccounts(ledger, ledger')
                   /\ \A a \in Accounts :
                         ledger'[a].bal =
                            IF a = s
                            THEN [ledger[a].bal EXCEPT !.available = @ - amt,
                                                       !.public = @ + amt]
                            ELSE ledger[a].bal]_vars
    /\ [](\A r \in Runs :
            run[r].kind = "withdraw"
            => /\ ReportsSuccess(run[r])
                  => /\ run[r].delivered
                     /\ run[r].amount <= run[r].before.available
                     /\ run[r].after =
                           [run[r].before EXCEPT
                               !.available = @ - run[r].amount,
                               !.public = @ + run[r].amount]
               /\ (run[r].order > 0 /\ run[r].amount > run[r].before.available)
                  => ~GuardedConfirmed(run[r]) /\ ReportsFailure(run[r]))

\* A withdraw reported success; the account's public balance is higher and
\* its available balance lower by the amount, with pending as before.
C23_Witness ==
    \E r \in Runs :
        /\ run[r].kind = "withdraw" /\ ReportsSuccess(run[r])
        /\ run[r].amount > 0
        /\ ledger[run[r].acct].bal.public = run[r].before.public + run[r].amount
        /\ ledger[run[r].acct].bal.available
              = run[r].before.available - run[r].amount
        /\ ledger[run[r].acct].bal.pending = run[r].before.pending

\* A withdraw of more than the available balance reached the ledger.
WithdrawOverdrawn ==
    \E r \in Runs :
        /\ run[r].kind = "withdraw" /\ run[r].delivered
        /\ run[r].amount > run[r].before.available

C25_EveryResponseHasFlag ==
    \A r \in Runs :
        Done(run[r])
        => /\ run[r].resp.hasBody
           /\ run[r].resp.status # OK => ~run[r].resp.success

\* The proofs of run r were generated from an available balance that is no
\* longer the one the account holds.
Stale(r) ==
    /\ Choreographed(run[r]) /\ run[r].seen # NoCiphertext
    /\ run[r].seen # AvailableCiphertext(ledger[run[r].acct])

\* C26: in every interleaving of runs on the same account, a transfer or
\* withdraw is executed only on the available-balance state its proofs were
\* generated from; when another run has changed that state since, the
\* submission is rejected, changes nothing, and the run reports failure.
C26_ProofsBoundToState ==
    [][\A r \in Runs :
          /\ (Choreographed(run[r]) /\ GuardedExecutes(r))
             => run[r].seen = AvailableCiphertext(ledger[run[r].acct])
          /\ (run[r].pc = "guarded" /\ Stale(r) /\ run'[r] # run[r])
             => /\ ReportsFailure(run'[r])
                /\ ledger' = ledger]_vars

\* Two runs fetched the same account; one was executed, and the other, whose
\* amount the balance still covered, was delivered afterwards with proofs of
\* the earlier state and reported failure.
C26_Witness ==
    \E r, q \in Runs :
        /\ r # q /\ run[r].acct = run[q].acct
        /\ Choreographed(run[r]) /\ Choreographed(run[q])
        /\ GuardedConfirmed(run[q]) /\ run[q].seen = run[r].seen
        /\ run[r].delivered /\ run[r].order > run[q].order
        /\ run[r].amount <= run[r].before.available
        /\ ReportsFailure(run[r]) /\ run[r].failed = "guarded"

\* C27: the guarded operation of a transfer or withdraw names exactly the
\* contexts its own run created: slot i of the instruction holds the
\* identity whose creation was the run's i-th submission, confirmed, carrying
\* the i-th sub-proof of the kind's order (equality, ciphertext validity,
\* range; equality, range); no identity named belongs to another run.
C27_RefsAreOwnContexts ==
    \A r \in Runs :
        \A g \in DOMAIN run[r].log :
            (Choreographed(run[r]) /\ run[r].log[g].op = "guarded")
            => LET refs == run[r].log[g].refs
                   kinds == ContextKinds(run[r].kind)
               IN  /\ Len(refs) = Len(kinds)
                   /\ g = Len(kinds) + 1
                   /\ \A i \in DOMAIN refs :
                         /\ run[r].log[i].op = "create"
                         /\ run[r].log[i].ok
                         /\ run[r].log[i].id = refs[i]
                         /\ run[r].log[i].proof = kinds[i]
                         /\ \A q \in Runs \ {r} :
                               /\ refs[i] \notin ContextIds(run[q])
                               /\ \A j \in DOMAIN run[q].log :
                                     run[q].log[j].id # refs[i]

\* A withdraw has submitted its guarded operation while a transfer, running
\* at the same time, has contexts of its own on the ledger.
C27_Witness ==
    \E r, q \in Runs :
        /\ run[r].kind = "withdraw"
        /\ \E g \in DOMAIN run[r].log : run[r].log[g].op = "guarded"
        /\ run[q].kind = "transfer" /\ run[q].pc = "create" /\ run[q].k = 2
        /\ ContextIds(run[q]) \cap contexts # {}

\* The state of proof context i of a run, read off what the run submitted:
\* Pending until its creation is submitted, Created once that is confirmed,
\* Referenced once the guarded operation naming it is submitted, Closed once
\* a close of it is confirmed, Abandoned when its creation or its close was
\* rejected.
ContextState(rec, i) ==
    LET id == rec.ctx[i]
        creates == {c \in Submitted(rec, "create") : rec.log[c].id = id}
        closes == {c \in Submitted(rec, "close") : rec.log[c].id = id}
    IN  IF \E c \in closes : rec.log[c].ok THEN "Closed"
        ELSE IF closes # {} THEN "Abandoned"
        ELSE IF \E c \in creates : ~rec.log[c].ok THEN "Abandoned"
        ELSE IF creates = {} THEN "Pending"
        ELSE IF \E g \in Submitted(rec, "guarded") :
                   \E j \in DOMAIN rec.log[g].refs : rec.log[g].refs[j] = id
             THEN "Referenced"
        ELSE "Created"

ContextRank(state) ==
    CASE state = "Pending" -> 0
      [] state = "Created" -> 1
      [] state = "Referenced" -> 2
      [] OTHER -> 3

\* C28: a proof context only moves forward through Pending, Created,
\* Referenced and Closed, or to Abandoned, and Closed and Abandoned are final;
\* a close is submitted only for a context whose creation was confirmed, at
\* most once per context, and only after the guarded operation that names
\* the context was submitted.
C28_ContextLifecycle ==
    /\ [][\A r \in Runs :
            \A i \in DOMAIN run[r].ctx :
                run'[r] # run[r] =>
                LET old == ContextState(run[r], i)
                    new == ContextState(run'[r], i)
                IN  /\ run'[r].ctx = run[r].ctx
                    /\ ContextRank(new) >= ContextRank(old)
                    /\ ContextRank(old) = 3 => new = old
                    /\ new = "Referenced" => old \in {"Created", "Referenced"}
                    /\ new = "Closed" => old \in {"Referenced", "Closed"}]_vars
    /\ [](\A r \in Runs :
            \A d \in Submitted(run[r], "close") :
                /\ \E c \in 1..(d - 1) :
                      /\ run[r].log[c].op = "create" /\ run[r].log[c].ok
                      /\ run[r].log[c].id = run[r].log[d].id
                /\ \E g \in 1..(d - 1) :
                      /\ run[r].log[g].op = "guarded"
                      /\ \E j \in DOMAIN run[r].log[g].refs :
                            run[r].log[g].refs[j] = run[r].log[d].id
                /\ \A e \in Submitted(run[r], "close") :
                      e # d => run[r].log[e].id # run[r].log[d].id)

\* A withdraw has ended with one of its contexts Closed and the other
\* Abandoned by a rejected close.
C28_Witness ==
    \E r \in Runs :
        /\ run[r].kind = "withdraw" /\ Done(run[r])
        /\ ContextState(run[r], 1) = "Closed"
        /\ ContextState(run[r], 2) = "Abandoned"
        /\ Cardinality(Submitted(run[r], "close")) = 2

\* The value the accounts in S hold: public + pending + available of each.
RECURSIVE Value(_, _)
Value(led, S) ==
    IF S = {} THEN 0
    ELSE LET a == CHOOSE x \in S : TRUE
         IN  led[a].bal.public + led[a].bal.pending + led[a].bal.available
             + Value(led, S \ {a})

C30_CreditCounterBounded ==
    /\ [](\A a \in Accounts :
            ledger[a].exists
            => /\ ledger[a].max_credits = 65536
               /\ ledger[a].bal.credits <= 65536)
    /\ [][\A r \in Runs :
            /\ (run[r].kind = "transfer" /\ GuardedExecutes(r))
               => /\ ledger[run[r].recipient].bal.credits < 65536
                  /\ ledger'[run[r].recipient].bal.credits
                        = ledger[run[r].recipient].bal.credits + 1
            /\ (run[r].kind = "transfer" /\ run[r].pc = "guarded"
                   /\ run'[r] # run[r]
                   /\ ledger[run[r].recipient].bal.credits = 65536)
               => ReportsFailure(run'[r]) /\ ledger' = ledger
            /\ (run[r].kind = "apply_pending" /\ GuardedExecutes(r)
                   /\ ledger[run[r].acct].bal.credits >= 1)
               => ledger'[run[r].acct].bal.credits = 0]_vars

\* A transfer the sender's balance covered was delivered while the
\* recipient's counter stood at the maximum and reported failure; an
\* apply-pending on the recipient was executed after it and the counter is
\* zero.
C30_Witness ==
    \E r, q \in Runs :
        /\ run[r].kind = "transfer" /\ run[r].delivered
        /\ run[r].amount <= run[r].before.available
        /\ ReportsFailure(run[r]) /\ run[r].failed = "guarded"
        /\ run[q].kind = "apply_pending" /\ run[q].acct = run[r].recipient
        /\ GuardedConfirmed(run[q]) /\ run[q].order > run[r].order
        /\ run[q].before.credits = 65536
        /\ ledger[run[q].acct].bal.credits = 0

\* An inbound transfer was executed after an apply-pending reset a counter
\* that stood at the maximum.
TransferAfterReset ==
    \E r, q \in Runs :
        /\ run[q].kind = "apply_pending" /\ GuardedConfirmed(run[q])
        /\ run[q].before.credits = 65536
        /\ run[r].kind = "transfer" /\ run[r].recipient = run[q].acct
        /\ GuardedConfirmed(run[r]) /\ run[r].order > run[q].order
        /\ ledger[run[q].acct].bal.credits = 1

\* C31: the eligible flag returned by generate-proof follows the available
\* balance of the account named in the request: two requests with the same
\* threshold, one for an account whose available balance is below the
\* threshold and one for an account whose available balance is at least the
\* threshold, get different flags.
C31_EligibleFollowsBalance ==
    \A r, q \in Runs :
        (/\ run[r].kind = "generate_proof" /\ Done(run[r])
         /\ run[q].kind = "generate_proof" /\ Done(run[q])
         /\ run[r].threshold = run[q].threshold
         /\ ledger[run[r].acct].bal.available < run[r].threshold
         /\ ledger[run[q].acct].bal.available >= run[q].threshold)
        => run[r].eligible # run[q].eligible
====
